---- MODULE Spec2Model ----
(***************************************************************************)
(* Structured-output adapters (ChatGPTClient, GeminiClient) and the        *)
(* JSON-Schema -> Gemini schema translator.                                *)
(*                                                                         *)
(* Representation.  A JavaScript string is a sequence of one-character     *)
(* strings.  An optional value (undefined / null versus present) is a      *)
(* sequence of length 0 (absent) or 1 (present), so that the empty string  *)
(* << <<>> >> and the empty array << <<>> >> stay distinct from            *)
(* null/undefined <<>>.                                                    *)
(***************************************************************************)
EXTENDS Integers, Sequences, FiniteSets, TLC

\* ------------------------------------------------------------------ bounds
\* Largest number of nodes of a caller-supplied schema tree.
MaxNodes == 3
\* Longest message list a caller passes.
MaxMsgs == 2
\* Longest text a backend returns as content.
MaxTextLen == 3

\* ----------------------------------------------------------------- helpers
None == <<>>
Some(x) == <<x>>

SeqsUpTo(S, n) == UNION {[1..k -> S] : k \in 0..n}

\* ------------------------------------------------------- schema (source)
\* One schema node as the translator and the OpenAI request see it.  Its type
\* is one of the tags of OpenAISchemaType ("null" among them), or
\* "undefined", which is what `.type` reads on a node that has no type at
\* all (an anyOf node).
SchemaNode(t, props, req, items, addl, alts) ==
    [type |-> t, properties |-> props, required |-> req, items |-> items,
     additionalProperties |-> addl, anyOf |-> alts]

Leaf(t) == SchemaNode(t, None, None, None, "absent", None)
ArrayOf(s) == SchemaNode("array", None, None, Some(s), "absent", None)
ObjectOf(props, req, addl) ==
    SchemaNode("object", Some(props), req, None, addl, None)
AnyOf(alts) == SchemaNode("undefined", None, None, None, "absent", Some(alts))
Prop(k, v) == [key |-> k, value |-> v]

\* ------------------------------------------------------- schema (target)
GeminiNode(t, props, req, items) ==
    [type |-> t, properties |-> props, required |-> req, items |-> items]

\* Outcome of a call: a returned value, or a thrown error.  An error is its
\* constructor name, the fixed part of its message, and what the message
\* interpolates (a schema type tag, or a text).
Thrown(name, prefix, tag, text) ==
    [ok |-> FALSE, value |-> None,
     error |-> Some([name |-> name, prefix |-> prefix, tag |-> tag, text |-> text])]
Threw(prefix, tag, text) == Thrown("Error", prefix, tag, text)
Returned(v) == [ok |-> TRUE, value |-> Some(v), error |-> None]

UnsupportedPrefix == "Unsupported JSON Schema type: "

RECURSIVE jsonSchemaToGeminiSchema(_)
RECURSIVE translateProperties(_, _)

\* The for..of loop over Object.entries(jsonSchema.properties): entries are
\* visited in insertion order, `done` is the target mapping built so far; a
\* throw of the recursive call leaves the loop and the function.
translateProperties(entries, done) ==
    IF entries = <<>> THEN Returned(done)
    ELSE LET r == jsonSchemaToGeminiSchema(Head(entries).value) IN
         IF r.ok
         THEN translateProperties(Tail(entries),
                                  Append(done, Prop(Head(entries).key, r.value[1])))
         ELSE r

\* Variant of jsonSchemaToGeminiSchema that answers a node of an unknown kind
\* with a default (a string node) instead of throwing.
jsonSchemaToGeminiSchema_defaulting(jsonSchema) ==
    IF jsonSchema.type = "object" /\ jsonSchema.properties # None THEN
        LET r == translateProperties(jsonSchema.properties[1], <<>>) IN
        IF r.ok
        THEN Returned(GeminiNode("OBJECT", Some(r.value[1]),
                 Some(IF jsonSchema.required # None THEN jsonSchema.required[1] ELSE <<>>),
                 None))
        ELSE r
    ELSE IF jsonSchema.type = "array" /\ jsonSchema.items # None THEN
        LET r == jsonSchemaToGeminiSchema(jsonSchema.items[1]) IN
        IF r.ok THEN Returned(GeminiNode("ARRAY", None, None, Some(r.value[1])))
        ELSE r
    ELSE IF jsonSchema.type = "number" \/ jsonSchema.type = "integer" THEN
        Returned(GeminiNode("NUMBER", None, None, None))
    ELSE IF jsonSchema.type = "boolean" THEN
        Returned(GeminiNode("BOOLEAN", None, None, None))
    ELSE Returned(GeminiNode("STRING", None, None, None))

\* Variant of jsonSchemaToGeminiSchema that fills an omitted `required` with
\* every property name instead of the empty list.
jsonSchemaToGeminiSchema_allRequired(jsonSchema) ==
    IF jsonSchema.type = "object" /\ jsonSchema.properties # None THEN
        LET r == translateProperties(jsonSchema.properties[1], <<>>) IN
        IF r.ok
        THEN Returned(GeminiNode("OBJECT", Some(r.value[1]),
                 Some(IF jsonSchema.required # None THEN jsonSchema.required[1]
                      ELSE [i \in 1..Len(jsonSchema.properties[1]) |->
                               jsonSchema.properties[1][i].key]),
                 None))
        ELSE r
    ELSE IF jsonSchema.type = "array" /\ jsonSchema.items # None THEN
        LET r == jsonSchemaToGeminiSchema(jsonSchema.items[1]) IN
        IF r.ok THEN Returned(GeminiNode("ARRAY", None, None, Some(r.value[1])))
        ELSE r
    ELSE IF jsonSchema.type = "string" THEN
        Returned(GeminiNode("STRING", None, None, None))
    ELSE IF jsonSchema.type = "number" \/ jsonSchema.type = "integer" THEN
        Returned(GeminiNode("NUMBER", None, None, None))
    ELSE IF jsonSchema.type = "boolean" THEN
        Returned(GeminiNode("BOOLEAN", None, None, None))
    ELSE Threw(UnsupportedPrefix, jsonSchema.type, <<>>)

jsonSchemaToGeminiSchema(jsonSchema) ==
    IF jsonSchema.type = "object" /\ jsonSchema.properties # None THEN
        LET r == translateProperties(jsonSchema.properties[1], <<>>) IN
        IF r.ok
        THEN Returned(GeminiNode("OBJECT", Some(r.value[1]),
                 Some(IF jsonSchema.required # None THEN jsonSchema.required[1] ELSE <<>>),
                 None))
        ELSE r
    ELSE IF jsonSchema.type = "array" /\ jsonSchema.items # None THEN
        LET r == jsonSchemaToGeminiSchema(jsonSchema.items[1]) IN
        IF r.ok THEN Returned(GeminiNode("ARRAY", None, None, Some(r.value[1])))
        ELSE r
    ELSE IF jsonSchema.type = "string" THEN
        Returned(GeminiNode("STRING", None, None, None))
    ELSE IF jsonSchema.type = "number" \/ jsonSchema.type = "integer" THEN
        Returned(GeminiNode("NUMBER", None, None, None))
    ELSE IF jsonSchema.type = "boolean" THEN
        Returned(GeminiNode("BOOLEAN", None, None, None))
    ELSE Threw(UnsupportedPrefix, jsonSchema.type, <<>>)


\* ------------------------------------------------------ schema universe
\* The leaves a caller can write: the five primitive tags, a union node
\* (anyOf, no type), an object node without properties, an array node
\* without items, and object nodes with an empty properties mapping.
LeafSchemas ==
    {Leaf(t) : t \in {"string", "number", "integer", "boolean", "null"}}
    \cup {AnyOf(<<Leaf("string"), Leaf("null")>>), Leaf("object"), Leaf("array"),
          ObjectOf(<<>>, None, "absent"), ObjectOf(<<>>, Some(<<>>), "false")}

\* The (required, additionalProperties) pairs tried for an object whose keys
\* are ks: the strict form, and forms that omit or relax one or both; with
\* two keys also a required list naming the first key only, and one naming
\* both keys in the other order.
ObjectFlags(ks) ==
    {<<Some(ks), "false">>, <<Some(ks), "absent">>, <<None, "absent">>,
     <<Some(<<>>), "true">>}
    \cup (IF Len(ks) = 2
          THEN {<<Some(<<ks[1]>>), "false">>, <<Some(<<ks[2], ks[1]>>), "false">>}
          ELSE {})

\* SchemasOfSize[n]: the schema trees with exactly n nodes: arrays, one-key
\* objects and two-key objects (both insertion orders) over smaller trees.
SchemasOfSize[n \in 1..MaxNodes] ==
    IF n = 1 THEN LeafSchemas
    ELSE {ArrayOf(s) : s \in SchemasOfSize[n - 1]}
         \cup {ObjectOf(<<Prop("a", s)>>, fl[1], fl[2]) :
                 s \in SchemasOfSize[n - 1], fl \in ObjectFlags(<<"a">>)}
         \cup UNION {
                {ObjectOf(<<Prop(ks[1], s1), Prop(ks[2], s2)>>, fl[1], fl[2]) :
                   s1 \in SchemasOfSize[i], s2 \in SchemasOfSize[n - 1 - i],
                   fl \in ObjectFlags(ks)}
                : i \in 1..(n - 2), ks \in {<<"a", "b">>, <<"b", "a">>}}

\* The end-to-end example: { name: string, age: integer }, both required.
PersonSchema ==
    ObjectOf(<<Prop("name", Leaf("string")), Prop("age", Leaf("integer"))>>,
             Some(<<"name", "age">>), "false")

SampleSchemas == {PersonSchema, ArrayOf(Leaf("number")), Leaf("null")}

\* ------------------------------------------------------------ JSON.parse
\* Characters of a backend text: a digit, array punctuation, a space and a
\* letter that starts no JSON value of this subset.
TextChars == {"1", "[", "]", ",", " ", "n"}
Texts == SeqsUpTo(TextChars, MaxTextLen)

JNumber(n) == [kind |-> "number", num |-> n, elems |-> <<>>]
JArray(es) == [kind |-> "array", num |-> 0, elems |-> es]

ParseFail == [ok |-> FALSE, val |-> JNumber(0), next |-> 0]
ParseOk(v, k) == [ok |-> TRUE, val |-> v, next |-> k]

RECURSIVE skipWs(_, _)
skipWs(t, i) == IF i <= Len(t) /\ t[i] = " " THEN skipWs(t, i + 1) ELSE i

RECURSIVE digitsEnd(_, _)
digitsEnd(t, i) == IF i <= Len(t) /\ t[i] = "1" THEN digitsEnd(t, i + 1) ELSE i

RECURSIVE Repunit(_)
\* The number written as n digits 1.
Repunit(n) == IF n = 0 THEN 0 ELSE 10 * Repunit(n - 1) + 1

RECURSIVE parseValue(_, _)
RECURSIVE parseElements(_, _, _)

parseValue(t, i) ==
    LET j == skipWs(t, i) IN
    IF j > Len(t) THEN ParseFail
    ELSE IF t[j] = "1" THEN
        LET k == digitsEnd(t, j) IN ParseOk(JNumber(Repunit(k - j)), k)
    ELSE IF t[j] = "[" THEN
        LET k == skipWs(t, j + 1) IN
        IF k <= Len(t) /\ t[k] = "]" THEN ParseOk(JArray(<<>>), k + 1)
        ELSE parseElements(t, j + 1, <<>>)
    ELSE ParseFail

parseElements(t, i, done) ==
    LET r == parseValue(t, i) IN
    IF ~r.ok THEN ParseFail
    ELSE LET k == skipWs(t, r.next) IN
         IF k > Len(t) THEN ParseFail
         ELSE IF t[k] = "," THEN parseElements(t, k + 1, Append(done, r.val))
         ELSE IF t[k] = "]" THEN ParseOk(JArray(Append(done, r.val)), k + 1)
         ELSE ParseFail

\* Strict JSON.parse: one value, surrounded by optional white space, and
\* nothing else; anything else throws a SyntaxError.
JSONparse(text) ==
    LET r == parseValue(text, 1) IN
    IF r.ok /\ skipWs(text, r.next) > Len(text)
    THEN [ok |-> TRUE, value |-> Some(r.val)]
    ELSE [ok |-> FALSE, value |-> None]

\* What the SyntaxError of JSON.parse says is the engine's choice: the
\* offending token and its position only, or a quotation of the source text.
SyntaxErrorDetails == {"position", "source"}

\* -------------------------------------------------------------- messages
Roles == {<<"s","y","s","t","e","m">>, <<"u","s","e","r">>,
          <<"a","s","s","i","s","t","a","n","t">>}
Contents == {<<>>, <<"h","i">>, <<"B","o","b">>}
Message == [role : Roles, content : Contents]
MessageLists == SeqsUpTo(Message, MaxMsgs)

SampleMessages ==
    <<[role |-> <<"s","y","s","t","e","m">>, content |-> <<"h","i">>],
      [role |-> <<"u","s","e","r">>, content |-> <<"B","o","b">>]>>

toUpperCaseChar(c) ==
    CASE c = "a" -> "A" [] c = "b" -> "B" [] c = "e" -> "E" [] c = "h" -> "H"
      [] c = "i" -> "I" [] c = "m" -> "M" [] c = "n" -> "N" [] c = "o" -> "O"
      [] c = "r" -> "R" [] c = "s" -> "S" [] c = "t" -> "T" [] c = "u" -> "U"
      [] c = "y" -> "Y" [] OTHER -> c
toUpperCase(s) == [i \in 1..Len(s) |-> toUpperCaseChar(s[i])]

RECURSIVE join(_, _)
\* Array.prototype.join
join(parts, sep) ==
    IF parts = <<>> THEN <<>>
    ELSE IF Len(parts) = 1 THEN parts[1]
    ELSE parts[1] \o sep \o join(Tail(parts), sep)

\* Variant of geminiPrompt that separates the messages by a single newline.
geminiPrompt_singleNewline(msgs) ==
    join([i \in 1..Len(msgs) |->
            toUpperCase(msgs[i].role) \o <<":", " ">> \o msgs[i].content],
         <<"\n">>)

\* messages.map(msg => `${msg.role.toUpperCase()}: ${msg.content}`).join('\n\n')
geminiPrompt(messages) ==
    join([i \in 1..Len(messages) |->
            toUpperCase(messages[i].role) \o <<":", " ">> \o messages[i].content],
         <<"\n", "\n">>)

\* messages.map(msg => ({ role: msg.role, content: msg.content }))
openAIMessages(messages) ==
    [i \in 1..Len(messages) |->
        [role |-> messages[i].role, content |-> messages[i].content]]

\* ----------------------------------------------------- backend responses
\* JavaScript truthiness of an optional string: null, undefined and ""
\* are falsy.
Truthy(opt) == opt # None /\ opt[1] # <<>>

Refusals == {None, Some(<<>>), Some(<<"n", "o">>), Some(<<"1">>)}

Completion(choices) == [choices |-> choices]
Choice(refusal, content) ==
    [message |-> Some([refusal |-> refusal, content |-> content])]

\* Completions without a usable first choice: no choice at all, or a choice
\* without message.
BareCompletions == {Completion(<<>>), Completion(<<[message |-> None]>>)}

\* A GenerateContentResult: response.text() is the text.
GenerateContentResult(text) == [response |-> [text |-> text]]

SampleTexts == {<<"[", "1", "]">>, <<"n">>, <<>>}
SampleRefusals == {None, Some(<<"n", "o">>)}

\* --------------------------------------------------- response handling
\* Variant of chatGPTResult that looks at the content before the refusal.
chatGPTResult_contentFirst(completion, detail) ==
    LET message == IF completion.choices = <<>> THEN None
                   ELSE completion.choices[1].message
    IN
    IF message = None THEN
        [outcome |-> Threw("No response from OpenAI", "", <<>>), parsed |-> <<>>]
    ELSE IF ~Truthy(message[1].content) THEN
        IF Truthy(message[1].refusal)
        THEN [outcome |-> Threw("OpenAI refused to respond: ", "", message[1].refusal[1]),
              parsed |-> <<>>]
        ELSE [outcome |-> Threw("No content in OpenAI response", "", <<>>),
              parsed |-> <<>>]
    ELSE
        LET p == JSONparse(message[1].content[1]) IN
        [outcome |->
            IF p.ok
            THEN Returned([data |-> p.value[1], rawResponse |-> completion])
            ELSE Thrown("SyntaxError", "", "",
                        IF detail = "source" THEN message[1].content[1] ELSE <<>>),
         parsed |-> <<message[1].content[1]>>]

\* ChatGPTClient.chatWithStructuredOutput after the await: the outcome and
\* the texts handed to JSON.parse.
chatGPTResult(completion, detail) ==
    LET message == IF completion.choices = <<>> THEN None
                   ELSE completion.choices[1].message
    IN
    IF message = None THEN
        [outcome |-> Threw("No response from OpenAI", "", <<>>), parsed |-> <<>>]
    ELSE IF Truthy(message[1].refusal) THEN
        [outcome |-> Threw("OpenAI refused to respond: ", "", message[1].refusal[1]),
         parsed |-> <<>>]
    ELSE IF ~Truthy(message[1].content) THEN
        [outcome |-> Threw("No content in OpenAI response", "", <<>>), parsed |-> <<>>]
    ELSE
        LET p == JSONparse(message[1].content[1]) IN
        [outcome |->
            IF p.ok
            THEN Returned([data |-> p.value[1], rawResponse |-> completion])
            ELSE Thrown("SyntaxError", "", "",
                        IF detail = "source" THEN message[1].content[1] ELSE <<>>),
         parsed |-> <<message[1].content[1]>>]

\* Variant of geminiResult whose catch block answers a text that does not
\* parse with an empty array as data instead of throwing.
geminiResult_swallowing(result) ==
    LET text == result.response.text
        p == JSONparse(text)
    IN
    [outcome |->
        Returned([data |-> IF p.ok THEN p.value[1] ELSE JArray(<<>>),
                  rawResponse |-> result]),
     parsed |-> <<text>>]

\* GeminiClient.chatWithStructuredOutput after the await.
geminiResult(result) ==
    LET text == result.response.text
        p == JSONparse(text)
    IN
    [outcome |->
        IF p.ok
        THEN Returned([data |-> p.value[1], rawResponse |-> result])
        ELSE Threw("Failed to parse Gemini JSON response: ", "", text),
     parsed |-> <<text>>]

\* ------------------------------------------------------------------ state
VARIABLES
    adapter,      \* the adapter the caller invoked: "ChatGPT" or "Gemini"
    messages,     \* the caller's message list
    config,       \* the caller's StructuredOutputConfig
    pc,           \* "start", "awaiting" (suspended at the await), "done"
    openaiCalls,  \* requests received by chat.completions.create, in order
    geminiCalls,  \* requests received by generateContent, in order
    backend,      \* what the backend answered, once it has
    parsed,       \* the texts handed to JSON.parse, in order
    outcome       \* how chatWithStructuredOutput ended, once it has

vars == <<adapter, messages, config, pc, openaiCalls, geminiCalls, backend,
          parsed, outcome>>

Adapters == {"ChatGPT", "Gemini"}

Config(s) == [schema |-> s, schemaName |-> "person"]

\* The state when chatWithStructuredOutput is entered.
Entered ==
    /\ adapter \in Adapters
    /\ pc = "start"
    /\ openaiCalls = <<>>
    /\ geminiCalls = <<>>
    /\ backend = None
    /\ parsed = <<>>
    /\ outcome = None

InitWith(lists, schemas) ==
    /\ messages \in lists
    /\ config \in {Config(s) : s \in schemas}
    /\ Entered

\* The invocation of adapter a is suspended at its await.
Suspended(a) == adapter = a /\ pc = "awaiting"

\* ChatGPTClient.chatWithStructuredOutput up to the await.
ChatGPTCall ==
    /\ adapter = "ChatGPT" /\ pc = "start"
    /\ openaiCalls' = Append(openaiCalls,
          [messages |-> openAIMessages(messages),
           response_format |->
              [type |-> "json_schema",
               json_schema |-> [name |-> config.schemaName,
                                schema |-> config.schema,
                                strict |-> TRUE]]])
    /\ pc' = "awaiting"
    /\ UNCHANGED <<adapter, messages, config, geminiCalls, backend, parsed, outcome>>

\* The create() promise resolves with `completion`.
ChatGPTReturn(completion, detail) ==
    /\ Suspended("ChatGPT")
    /\ LET r == chatGPTResult(completion, detail) IN
         /\ outcome' = Some(r.outcome)
         /\ parsed' = parsed \o r.parsed
    /\ backend' = Some(completion)
    /\ pc' = "done"
    /\ UNCHANGED <<adapter, messages, config, openaiCalls, geminiCalls>>

\* The create() promise rejects: the SDK's error leaves the method as it is.
ChatGPTReject ==
    /\ Suspended("ChatGPT")
    /\ outcome' = Some(Thrown("APIError", "", "", <<>>))
    /\ pc' = "done"
    /\ UNCHANGED <<adapter, messages, config, openaiCalls, geminiCalls, backend, parsed>>

\* Variant of GeminiCall that, when the translation throws, falls back to
\* the other provider with the untranslated schema.
GeminiCall_fallback ==
    /\ adapter = "Gemini" /\ pc = "start"
    /\ LET t == jsonSchemaToGeminiSchema(config.schema) IN
         IF t.ok
         THEN /\ geminiCalls' = Append(geminiCalls,
                    [generationConfig |->
                        [responseMimeType |-> "application/json",
                         responseSchema |-> t.value[1]],
                     prompt |-> geminiPrompt(messages)])
              /\ pc' = "awaiting"
              /\ UNCHANGED <<outcome, openaiCalls>>
         ELSE /\ openaiCalls' = Append(openaiCalls,
                    [messages |-> openAIMessages(messages),
                     response_format |->
                        [type |-> "json_schema",
                         json_schema |-> [name |-> config.schemaName,
                                          schema |-> config.schema,
                                          strict |-> TRUE]]])
              /\ outcome' = Some(t)
              /\ pc' = "done"
              /\ UNCHANGED geminiCalls
    /\ UNCHANGED <<adapter, messages, config, backend, parsed>>

\* GeminiClient.chatWithStructuredOutput up to the await: the schema is
\* translated while the model object is built, before anything is sent.
GeminiCall ==
    /\ adapter = "Gemini" /\ pc = "start"
    /\ LET t == jsonSchemaToGeminiSchema(config.schema) IN
         IF t.ok
         THEN /\ geminiCalls' = Append(geminiCalls,
                    [generationConfig |->
                        [responseMimeType |-> "application/json",
                         responseSchema |-> t.value[1]],
                     prompt |-> geminiPrompt(messages)])
              /\ pc' = "awaiting"
              /\ UNCHANGED outcome
         ELSE /\ outcome' = Some(t)
              /\ pc' = "done"
              /\ UNCHANGED geminiCalls
    /\ UNCHANGED <<adapter, messages, config, openaiCalls, backend, parsed>>

\* The generateContent() promise resolves with `result`.
GeminiReturn(result) ==
    /\ Suspended("Gemini")
    /\ LET r == geminiResult(result) IN
         /\ outcome' = Some(r.outcome)
         /\ parsed' = parsed \o r.parsed
    /\ backend' = Some(result)
    /\ pc' = "done"
    /\ UNCHANGED <<adapter, messages, config, openaiCalls, geminiCalls>>

\* The generateContent() promise rejects.
GeminiReject ==
    /\ Suspended("Gemini")
    /\ outcome' = Some(Thrown("GoogleGenerativeAIError", "", "", <<>>))
    /\ pc' = "done"
    /\ UNCHANGED <<adapter, messages, config, openaiCalls, geminiCalls, backend, parsed>>

\* One step of an invocation.  The backend answers the ChatGPT adapter with
\* a completion of `bare`, or with a message whose refusal is of `refusals`
\* and whose content is null or a text of `texts`; it answers the Gemini
\* adapter with a text of `texts`; or the call rejects.
NextWith(bare, refusals, texts) ==
    \/ ChatGPTCall
    \/ /\ Suspended("ChatGPT")
       /\ \E c \in bare, d \in SyntaxErrorDetails : ChatGPTReturn(c, d)
    \/ /\ Suspended("ChatGPT")
       /\ \E r \in refusals, d \in SyntaxErrorDetails :
             ChatGPTReturn(Completion(<<Choice(r, None)>>), d)
    \/ /\ Suspended("ChatGPT")
       /\ \E r \in refusals, t \in texts, d \in SyntaxErrorDetails :
             ChatGPTReturn(Completion(<<Choice(r, Some(t))>>), d)
    \/ ChatGPTReject
    \/ GeminiCall
    \/ /\ Suspended("Gemini")
       /\ \E t \in texts : GeminiReturn(GenerateContentResult(t))
    \/ GeminiReject

\* The caller's schema is a tree with exactly n nodes: the trees of
\* SchemasOfSize[n], drawn one at a time.
SchemaHasSize(n) ==
    IF n = 1 THEN config \in {Config(s) : s \in LeafSchemas}
    ELSE \/ \E c \in SchemasOfSize[n - 1] : config = Config(ArrayOf(c))
         \/ \E c \in SchemasOfSize[n - 1], fl \in ObjectFlags(<<"a">>) :
               config = Config(ObjectOf(<<Prop("a", c)>>, fl[1], fl[2]))
         \/ \E i \in 1..(n - 2), ks \in {<<"a", "b">>, <<"b", "a">>} :
               \E s1 \in SchemasOfSize[i], s2 \in SchemasOfSize[n - 1 - i],
                  fl \in ObjectFlags(ks) :
                  config = Config(ObjectOf(<<Prop(ks[1], s1), Prop(ks[2], s2)>>,
                                           fl[1], fl[2]))

\* Every schema tree, one message list, a few backend answers.
InitSchema ==
    /\ messages = SampleMessages
    /\ \E n \in 1..MaxNodes : SchemaHasSize(n)
    /\ Entered
NextSchema == NextWith({Completion(<<>>)}, {None}, {<<"[", "1", "]">>})
SpecSchema == InitSchema /\ [][NextSchema]_vars

\* Every backend answer, a few schemas, one message list.
InitDecode == InitWith({SampleMessages}, SampleSchemas)
NextDecode == NextWith(BareCompletions, Refusals, Texts)
SpecDecode == InitDecode /\ [][NextDecode]_vars

\* Every message list, a few schemas, a few backend answers.
InitMessages == InitWith(MessageLists, SampleSchemas)
NextMessages == NextWith(BareCompletions, SampleRefusals, SampleTexts)
SpecMessages == InitMessages /\ [][NextMessages]_vars

\* ================================================================ properties

\* ---------------------------------------------- vocabulary of the properties
Calls == Len(openaiCalls) + Len(geminiCalls)
Ended == pc = "done" /\ outcome # None
Failed == Ended /\ ~outcome[1].ok
Succeeded == Ended /\ outcome[1].ok
TheError == outcome[1].error[1]

\* The kind tags the translator has a rule for.
RecognizedTags == {"string", "number", "integer", "boolean", "object", "array"}

\* A node the descent can translate: a primitive, an object with a properties
\* mapping, an array with an items schema.
NodeTranslatable(n) ==
    \/ n.type \in {"string", "number", "integer", "boolean"}
    \/ n.type = "object" /\ n.properties # None
    \/ n.type = "array" /\ n.items # None

\* The nodes below n the descent goes into, in the order it does.
Children(n) ==
    IF n.type = "object" /\ n.properties # None
    THEN [i \in 1..Len(n.properties[1]) |-> n.properties[1][i].value]
    ELSE IF n.type = "array" /\ n.items # None THEN <<n.items[1]>>
    ELSE <<>>

RECURSIVE Preorder(_)
RECURSIVE PreorderAll(_)
\* The nodes of a tree in the order a full depth-first descent meets them.
Preorder(n) == <<n>> \o PreorderAll(Children(n))
PreorderAll(ns) ==
    IF ns = <<>> THEN <<>> ELSE Preorder(Head(ns)) \o PreorderAll(Tail(ns))

\* Position in Preorder of the first node the descent cannot translate (the
\* node at which it stops), 0 when there is none.
FirstStop(order) ==
    IF \A i \in 1..Len(order) : NodeTranslatable(order[i]) THEN 0
    ELSE CHOOSE i \in 1..Len(order) :
           /\ ~NodeTranslatable(order[i])
           /\ \A j \in 1..(i - 1) : NodeTranslatable(order[j])

TreeTranslatable(s) == FirstStop(Preorder(s)) = 0

KeysOf(props) == [i \in 1..Len(props) |-> props[i].key]
Range(q) == {q[i] : i \in 1..Len(q)}

IsUnsupportedSchemaType(e) == e.name = "Error" /\ e.prefix = UnsupportedPrefix
IsContentRefusedError(e) == e.name = "Error" /\ e.prefix = "OpenAI refused to respond: "
IsEmptyResponseError(e) ==
    e.name = "Error"
    /\ e.prefix \in {"No response from OpenAI", "No content in OpenAI response"}
IsResponseParseError(e) ==
    \/ e.name = "SyntaxError"
    \/ e.name = "Error" /\ e.prefix = "Failed to parse Gemini JSON response: "

\* The message of the backend's answer (ChatGPT), if it has one.
TheMessage ==
    IF backend = None \/ adapter # "ChatGPT" THEN None
    ELSE IF backend[1].choices = <<>> THEN None
    ELSE backend[1].choices[1].message

\* The backend's answer is flagged as refused, with a reason.
Refused == TheMessage # None /\ Truthy(TheMessage[1].refusal)

\* The content of the backend's answer: null/undefined, or a text.
ContentText ==
    IF backend = None THEN None
    ELSE IF adapter = "Gemini" THEN Some(backend[1].response.text)
    ELSE IF TheMessage = None THEN None
    ELSE TheMessage[1].content

HasText == ContentText # None /\ ContentText[1] # <<>>

\* ------------------------------------------------------------------------ C1
\* C1: if a node reached by the translator's descent has an unrecognized kind
\* tag, chatWithStructuredOutput of the Gemini adapter ends with the
\* unsupported-type error carrying that node's tag, returns no (partial)
\* target tree, and sends nothing to a backend.
ReachedUnrecognized(s) ==
    LET order == Preorder(s)
        k == FirstStop(order)
    IN k # 0 /\ order[k].type \notin RecognizedTags

C1_UnsupportedTypeRejected ==
    (adapter = "Gemini" /\ pc # "start" /\ ReachedUnrecognized(config.schema)) =>
        /\ Failed
        /\ outcome[1].value = None
        /\ IsUnsupportedSchemaType(TheError)
        /\ LET order == Preorder(config.schema) IN
             TheError.tag = order[FirstStop(order)].type
        /\ geminiCalls = <<>>
        /\ openaiCalls = <<>>

\* An object whose first property translates and whose second property has an
\* unrecognized kind: the translation had built part of the target tree.
C1_Witness ==
    /\ adapter = "Gemini" /\ Failed
    /\ ReachedUnrecognized(config.schema)
    /\ config.schema.type = "object"
    /\ FirstStop(Preorder(config.schema)) = 3
    /\ TheError.tag = "null"

\* ----------------------------------------------------------------------- C10
RECURSIVE RequiredCarried(_, _)
\* Every object node of the target carries the source node's required list,
\* or the empty list where the source has none.
RequiredCarried(src, tgt) ==
    IF src.type = "object" THEN
        /\ tgt.required = Some(IF src.required = None THEN <<>> ELSE src.required[1])
        /\ tgt.properties # None
        /\ Len(tgt.properties[1]) = Len(src.properties[1])
        /\ \A i \in 1..Len(src.properties[1]) :
              RequiredCarried(src.properties[1][i].value, tgt.properties[1][i].value)
    ELSE IF src.type = "array" THEN
        /\ tgt.items # None
        /\ RequiredCarried(src.items[1], tgt.items[1])
    ELSE tgt.required = None

\* C10: the translation succeeds exactly when every node of the tree is a
\* string, number, integer or boolean node, an object node with a properties
\* mapping or an array node with an items schema; otherwise it throws the
\* unsupported-type error; on success every object node's required is the
\* source's list, or the empty list when the source omits it.
C10_TranslatesIffSupported ==
    (adapter = "Gemini" /\ pc # "start") =>
        /\ (geminiCalls # <<>>) <=> TreeTranslatable(config.schema)
        /\ geminiCalls = <<>> => Failed /\ IsUnsupportedSchemaType(TheError)
        /\ geminiCalls # <<>> =>
              RequiredCarried(config.schema,
                              geminiCalls[1].generationConfig.responseSchema)

\* A translated object with two properties that names one of them as
\* required, above an object that omits required.
C10_Witness ==
    /\ adapter = "Gemini" /\ geminiCalls # <<>>
    /\ config.schema.type = "object"
    /\ config.schema.properties # None
    /\ Len(config.schema.properties[1]) = 2
    /\ config.schema.required # None
    /\ Len(config.schema.required[1]) = 1
    /\ \E i \in 1..2 :
          /\ config.schema.properties[1][i].value.type = "object"
          /\ config.schema.properties[1][i].value.required = None
          /\ geminiCalls[1].generationConfig.responseSchema.properties[1][i].value.required
                = Some(<<>>)

\* ------------------------------------------------------------------------ C6
RECURSIVE IsCanonical(_)
\* A tree built from the node kinds string, number/integer, boolean, array,
\* object and union only.
IsCanonical(s) ==
    \/ s.type \in {"string", "number", "integer", "boolean"}
    \/ s.type = "array" /\ s.items # None /\ IsCanonical(s.items[1])
    \/ /\ s.type = "object" /\ s.properties # None
       /\ \A i \in 1..Len(s.properties[1]) : IsCanonical(s.properties[1][i].value)
    \/ /\ s.type = "undefined" /\ s.anyOf # None
       /\ \A i \in 1..Len(s.anyOf[1]) : IsCanonical(s.anyOf[1][i])

\* The kind a target type tag declares.
DeclaredKind(t) ==
    CASE t = "STRING" -> "string" [] t = "NUMBER" -> "number"
      [] t = "INTEGER" -> "integer" [] t = "BOOLEAN" -> "boolean"
      [] t = "ARRAY" -> "array" [] t = "OBJECT" -> "object"
      [] OTHER -> "unknown"

RECURSIVE Depth(_)
RECURSIVE MaxDepthOf(_)
\* Nesting depth of a source or target tree.
Depth(n) ==
    1 + MaxDepthOf((IF n.properties # None
                    THEN [i \in 1..Len(n.properties[1]) |-> n.properties[1][i].value]
                    ELSE <<>>)
                   \o (IF n.items # None THEN <<n.items[1]>> ELSE <<>>))
MaxDepthOf(ns) ==
    IF ns = <<>> THEN 0
    ELSE LET d == Depth(Head(ns))
             m == MaxDepthOf(Tail(ns))
         IN IF d > m THEN d ELSE m

RECURSIVE ShapePreserved(_, _)
\* Same property names in the same order at every level, and the same
\* declared item type for every array.
ShapePreserved(src, tgt) ==
    IF src.type = "object" /\ src.properties # None THEN
        /\ tgt.type = "OBJECT" /\ tgt.properties # None
        /\ KeysOf(tgt.properties[1]) = KeysOf(src.properties[1])
        /\ \A i \in 1..Len(src.properties[1]) :
              ShapePreserved(src.properties[1][i].value, tgt.properties[1][i].value)
    ELSE IF src.type = "array" /\ src.items # None THEN
        /\ tgt.type = "ARRAY" /\ tgt.items # None
        /\ DeclaredKind(tgt.items[1].type) = src.items[1].type
        /\ ShapePreserved(src.items[1], tgt.items[1])
    ELSE TRUE

\* C6: translating a canonical tree yields a target tree with the same
\* property names in insertion order at every level, the same nesting depth
\* and the same declared item type for every array (number and integer kept
\* apart).
C6_ShapePreserved ==
    (adapter = "Gemini" /\ pc # "start" /\ IsCanonical(config.schema)) =>
        /\ geminiCalls # <<>>
        /\ ShapePreserved(config.schema, geminiCalls[1].generationConfig.responseSchema)
        /\ Depth(geminiCalls[1].generationConfig.responseSchema) = Depth(config.schema)

\* ------------------------------------------------------------------------ C5
RECURSIVE StrictEverywhere(_)
\* Every object node lists every property as required and forbids additional
\* properties.
StrictEverywhere(s) ==
    /\ s.type = "object" =>
          /\ s.properties # None
          /\ s.required # None
          /\ Range(s.required[1]) = Range(KeysOf(s.properties[1]))
          /\ s.additionalProperties = "false"
    /\ s.properties # None =>
          \A i \in 1..Len(s.properties[1]) : StrictEverywhere(s.properties[1][i].value)
    /\ s.items # None => StrictEverywhere(s.items[1])
    /\ s.anyOf # None => \A i \in 1..Len(s.anyOf[1]) : StrictEverywhere(s.anyOf[1][i])

\* C5: every schema the ChatGPT adapter places in a strict request has, at
\* every object node, required = all property names and additionalProperties
\* = false; a relaxed input schema is never forwarded.
C5_StrictSchemaForwarded ==
    \A i \in 1..Len(openaiCalls) :
        openaiCalls[i].response_format.json_schema.strict =>
            StrictEverywhere(openaiCalls[i].response_format.json_schema.schema)

\* ------------------------------------------------------------------------ C2
\* C2: a non-refused answer whose content is a non-empty text that is not
\* valid JSON makes either adapter fail, after exactly one decode attempt,
\* with a parse error whose payload is the raw text verbatim.
C2_ParseFailureCarriesText ==
    (pc = "done" /\ backend # None /\ ~Refused /\ HasText
       /\ ~JSONparse(ContentText[1]).ok) =>
        /\ Failed
        /\ IsResponseParseError(TheError)
        /\ TheError.text = ContentText[1]
        /\ parsed = <<ContentText[1]>>

\* ------------------------------------------------------------------------ C3
\* C3: an answer flagged as refused with reason r makes the ChatGPT adapter
\* fail with the refusal error carrying exactly r, and nothing is handed to
\* JSON.parse, whatever the content of the answer.
C3_RefusalSurfaced ==
    (pc = "done" /\ Refused) =>
        /\ Failed
        /\ IsContentRefusedError(TheError)
        /\ TheError.text = TheMessage[1].refusal[1]
        /\ parsed = <<>>

\* A refused answer that also carries content that is valid JSON.
C3_Witness ==
    /\ pc = "done" /\ Refused /\ Failed
    /\ HasText /\ JSONparse(ContentText[1]).ok
    /\ TheError.text = <<"n", "o">>

\* ------------------------------------------------------------------------ C4
\* The answer holds no content where content was expected: no choice or no
\* message, null or empty content, an empty response text.
EmptyPayload == backend # None /\ ~HasText

\* C4: a non-refused answer with an empty or missing payload makes either
\* adapter fail with an empty-response error, which is no parse error, and
\* nothing is handed to JSON.parse.
C4_EmptyResponseSurfaced ==
    (pc = "done" /\ EmptyPayload /\ ~Refused) =>
        /\ Failed
        /\ IsEmptyResponseError(TheError)
        /\ ~IsResponseParseError(TheError)
        /\ parsed = <<>>

\* ------------------------------------------------------------------------ C7
\* C7 as stated: every invocation, whatever its outcome, has issued exactly
\* one backend call when it ends.
C7_ExactlyOneCall == pc = "done" => Calls = 1

\* C7 as amended: an invocation issues at most one backend call, to its own
\* provider only; it has issued exactly one once it is past its call, except
\* that a Gemini invocation whose schema translation fails issues none.
C7_AtMostOneCall ==
    /\ Calls <= 1
    /\ adapter = "ChatGPT" => geminiCalls = <<>>
    /\ adapter = "Gemini" => openaiCalls = <<>>
    /\ pc = "start" => Calls = 0
    /\ pc # "start" =>
          (Calls = 0 <=> (adapter = "Gemini" /\ ~TreeTranslatable(config.schema)))

\* A Gemini invocation that ended in the translation error without a call.
C7_Witness ==
    /\ adapter = "Gemini" /\ Failed /\ Calls = 0
    /\ IsUnsupportedSchemaType(TheError)

\* ------------------------------------------------------------------------ C8
Wire(msgs) ==
    [i \in 1..Len(msgs) |-> [role |-> Some(msgs[i].role), content |-> msgs[i].content]]

\* What the backend is handed as messages: the request's message list
\* (ChatGPT), or the one prompt, which has no role of its own (Gemini).
Delivered ==
    IF adapter = "ChatGPT" THEN Wire(openaiCalls[1].messages)
    ELSE <<[role |-> None, content |-> geminiCalls[1].prompt]>>

\* C8 as stated: what either adapter delivers is the input sequence verbatim:
\* as many messages, in the same order, each with its role and content.
C8_MessagesVerbatim == Calls > 0 => Delivered = Wire(messages)

\* The label the Gemini prompt gives a role.
RoleLabel(role) ==
    CASE role = <<"s","y","s","t","e","m">> -> <<"S","Y","S","T","E","M">>
      [] role = <<"u","s","e","r">> -> <<"U","S","E","R">>
      [] role = <<"a","s","s","i","s","t","a","n","t">> ->
             <<"A","S","S","I","S","T","A","N","T">>

StartsWith(text, prefix) ==
    Len(text) >= Len(prefix) /\ SubSeq(text, 1, Len(prefix)) = prefix
Drop(text, n) == SubSeq(text, n + 1, Len(text))

RECURSIVE PromptSpells(_, _)
\* The prompt reads, from its start to its end, the messages in order: each
\* as its upper-cased role, ": " and its content, with a blank line between
\* two messages and nothing else.
PromptSpells(prompt, msgs) ==
    IF msgs = <<>> THEN prompt = <<>>
    ELSE LET line == RoleLabel(msgs[1].role) \o <<":", " ">> \o msgs[1].content IN
         /\ StartsWith(prompt, line)
         /\ IF Len(msgs) = 1 THEN Len(prompt) = Len(line)
            ELSE /\ StartsWith(Drop(prompt, Len(line)), <<"\n", "\n">>)
                 /\ PromptSpells(Drop(prompt, Len(line) + 2), Tail(msgs))

\* C8 as amended: the ChatGPT adapter delivers the input sequence verbatim;
\* the Gemini adapter delivers one prompt that spells the messages in input
\* order, each as its upper-cased role, ": " and its content verbatim,
\* separated by blank lines.
C8_OrderPreserved ==
    /\ (adapter = "ChatGPT" /\ openaiCalls # <<>>) =>
          openaiCalls[1].messages = messages
    /\ (adapter = "Gemini" /\ geminiCalls # <<>>) =>
          PromptSpells(geminiCalls[1].prompt, messages)

\* A Gemini call for two messages of different roles.
C8_Witness ==
    /\ adapter = "Gemini" /\ geminiCalls # <<>>
    /\ Len(messages) = 2
    /\ messages[1].role # messages[2].role
    /\ messages[1].content # <<>>

\* ------------------------------------------------------------------------ C9
RECURSIVE Digits(_)
\* Decimal digits of a positive number.
Digits(n) ==
    (IF n >= 10 THEN Digits(n \div 10) ELSE <<>>)
    \o <<CASE n % 10 = 1 -> "1" [] OTHER -> "?">>

RECURSIVE Stringify(_)
RECURSIVE StringifyAll(_)
\* The canonical JSON text of a value.
Stringify(v) ==
    IF v.kind = "number" THEN Digits(v.num)
    ELSE <<"[">> \o StringifyAll(v.elems) \o <<"]">>
StringifyAll(vs) ==
    IF vs = <<>> THEN <<>>
    ELSE IF Len(vs) = 1 THEN Stringify(vs[1])
    ELSE Stringify(vs[1]) \o <<",">> \o StringifyAll(Tail(vs))

StripSpaces(text) == SelectSeq(text, LAMBDA c : c # " ")

RECURSIVE Conforms(_, _)
\* The value is an instance of the schema.
Conforms(v, s) ==
    \/ v.kind = "number" /\ s.type \in {"number", "integer"}
    \/ /\ v.kind = "array" /\ s.type = "array" /\ s.items # None
       /\ \A i \in 1..Len(v.elems) : Conforms(v.elems[i], s.items[1])

\* The backend answered, without refusal, with non-empty content that is
\* valid JSON.
UsableAnswer ==
    backend # None /\ ~Refused /\ HasText /\ JSONparse(ContentText[1]).ok

\* C9: chatWithStructuredOutput returns exactly when the backend answered
\* with non-refused, non-empty content that is valid JSON; then data is the
\* strict JSON decode of that content (its canonical text is the content
\* without white space) and rawResponse is the backend's whole answer.
C9_SuccessIffUsable ==
    pc = "done" =>
        /\ Succeeded <=> UsableAnswer
        /\ Succeeded =>
              /\ outcome[1].value[1].data = JSONparse(ContentText[1]).value[1]
              /\ Stringify(outcome[1].value[1].data) = StripSpaces(ContentText[1])
              /\ outcome[1].value[1].rawResponse = backend[1]

\* A successful call whose data is no instance of the requested schema, the
\* content having been padded with white space.
C9_Witness ==
    /\ Succeeded
    /\ ~Conforms(outcome[1].value[1].data, config.schema)
    /\ config.schema = ArrayOf(Leaf("number"))
    /\ ContentText[1] # StripSpaces(ContentText[1])

====
